---- MODULE Spec2Model ----
(***************************************************************************)
(* flask-pynamodb-resource: PynamoDB models and secondary indexes exposed  *)
(* as Flask-RESTX resources (src/flask_pynamodb_resource/__init__.py).     *)
(*                                                                         *)
(* The table of the model is the variable `store`.  One model is           *)
(* registered; its key topology is chosen in Init: the hash key `forum` is *)
(* a UnicodeAttribute or a NumberAttribute, the range key `thread` (a      *)
(* UnicodeAttribute) is present or not, `view` is a non-key                *)
(* UnicodeAttribute, and the model carries any subset of two secondary     *)
(* indexes on `view` (one hash-only, one with range key `forum`).          *)
(*                                                                         *)
(* Python values are records [t, v]: t is the Python type, v the text of   *)
(* the value as a sequence of characters, so that a str and an int with    *)
(* the same digits are different values, as they are in Python.            *)
(***************************************************************************)
EXTENDS Integers, Sequences, FiniteSets, TLC

VARIABLES
    hash_kind,      \* attribute class of the hash key: "Unicode" or "Number"
    range_keyname,  \* cls.range_keyname of the model resource: NoKey or "thread"
    indexes,        \* the secondary indexes declared on the model
    routes,         \* what ns.add_resource was called with: [resource, rule, methods]
    store,          \* the table: a set of items [forum, thread, view]
    store0,         \* the table as it was when the last request arrived
    req,            \* the last request
    resp,           \* its response; kind "none" while the resource is idle
    base,           \* the model or index a PynamoModel is built for
    typemap_order,  \* the order in which TYPEMAP.items() yields its entries
    rest_model,     \* the PynamoModel built: its fields and its `required` set
    app_api,        \* the __api__ attribute of each application: an Api, or NoApi
    apis,           \* the Api objects there are, in the order of their creation
    call,           \* the last call of ModelResource.register, and the state it found
    posts           \* the POST requests in progress: where each is in _save

resource_vars == <<hash_kind, range_keyname, indexes, routes, store, store0, req, resp>>
schema_vars == <<base, typemap_order, rest_model>>
api_vars == <<app_api, apis, call>>
conc_vars == <<posts>>
vars == <<resource_vars, schema_vars, api_vars, conc_vars>>

----------------------------------------------------------------------------
(* Bounds *)

\* the table holds at most this many items when the application starts
MaxRecords == 2

\* ModelResource.register is called at most this many times
MaxCalls == 3

\* the application code constructs at most this many Api objects of its own
MaxUserApis == 1
\* a GET carries at most this many query-string parameters
MaxArgs == 1

----------------------------------------------------------------------------
(* Python values *)

PyStr(s) == [t |-> "str", v |-> s]
PyInt(s) == [t |-> "int", v |-> s]
None == [t |-> "none", v |-> <<>>]
Exc(name) == [t |-> "exc", v |-> <<name>>]

NoKey == "None"
hash_keyname == "forum"

\* '/' in value, for a str
HasSlash(s) == \E i \in DOMAIN s : s[i] = "/"

\* the text is a JSON number (digits only, in this model)
IsJsonNumber(s) == Len(s) > 0 /\ \A i \in DOMAIN s : s[i] \in {"1", "2"}

\* path segments a URL rule <name> can match: Flask's default converter matches
\* no '/'
UrlSegments == {<<"1">>, <<"2">>, <<"x">>}
\* segments used for the range key and for the index hash key
FewSegments == {<<"1">>, <<"2">>}

\* attribute class of each attribute of the model
KindOf(k) == IF k = "forum" THEN hash_kind ELSE "Unicode"

\* Attribute.deserialize: UnicodeAttribute returns the text, NumberAttribute
\* json.loads it and raises ValueError on what is no JSON
deserialize(kind, s) ==
    IF kind = "Unicode" THEN PyStr(s)
    ELSE IF IsJsonNumber(s) THEN PyInt(s)
    ELSE Exc("ValueError")

\* the attribute names of the model (get_attributes(model).keys())
ModelAttrs == {"forum", "view"} \cup (IF range_keyname # NoKey THEN {"thread"} ELSE {})

\* key values an item of the table can have
HashValues == IF hash_kind = "Unicode" THEN {PyStr(<<"1">>), PyStr(<<"2">>)}
              ELSE {PyInt(<<"1">>), PyInt(<<"2">>)}
RangeValues == IF range_keyname = NoKey THEN {None} ELSE {PyStr(<<"1">>), PyStr(<<"2">>)}
ViewValues == {None, PyStr(<<"1">>)}

Items == [forum : HashValues, thread : RangeValues, view : ViewValues]

SameKey(a, b) == a.forum = b.forum /\ a.thread = b.thread

\* a table has one item per key
IsTable(st) == \A a \in st : \A b \in st : SameKey(a, b) => a = b

----------------------------------------------------------------------------
(* Requests *)

NoKwargs == [forum |-> None, thread |-> None, view |-> None]
NoData == [isdict |-> FALSE, forum |-> None, thread |-> None, view |-> None, zz |-> FALSE]
NoReq == [op |-> "none", resource |-> "none", kwargs |-> NoKwargs, data |-> NoData,
          args |-> <<>>, fault |-> "none"]
NoResp == [status |-> 0, kind |-> "none", message |-> "", items |-> {}]

\* URL keyword arguments of the model resource's three rules, as Flask passes
\* them: text
ModelKwargs ==
    {NoKwargs}
    \cup {[NoKwargs EXCEPT !.forum = PyStr(h)] : h \in UrlSegments}
    \cup (IF range_keyname = NoKey THEN {}
          ELSE {[NoKwargs EXCEPT !.forum = PyStr(h), !.thread = PyStr(r)] :
                    h \in UrlSegments, r \in FewSegments})

\* values a request body gives a key attribute: absent, text, text with a
\* slash, a JSON number
BodyKeyValues == {None, PyStr(<<"1">>), PyStr(<<"2">>), PyStr(<<"1", "/", "2">>), PyInt(<<"1">>)}

\* request bodies: a JSON object (or form fields) with any of forum, thread,
\* view and the unknown key zz, or JSON that is no object
Bodies ==
    {NoData}
    \cup [isdict : {TRUE}, forum : BodyKeyValues, thread : BodyKeyValues,
          view : ViewValues, zz : BOOLEAN]

\* query-string parameters: the non-key attribute, a key attribute, a name the
\* model does not have, and a member of the model class that is no attribute
ArgNames == {"view", "forum", "zz", "Meta"}
Args == {[k |-> k, v |-> <<"1">>] : k \in ArgNames}
RECURSIVE SeqsUpTo(_, _)
SeqsUpTo(S, n) ==
    IF n = 0 THEN {<<>>}
    ELSE LET shorter == SeqsUpTo(S, n - 1)
         IN  shorter \cup {Append(q, x) : q \in {s \in shorter : Len(s) = n - 1}, x \in S}
QueryArgs == SeqsUpTo(Args, MaxArgs)

\* what the ORM does: "none" it works, "Error" its calls raise (the table is
\* unreachable), "PutError" save() raises PutError
Faults == {"none", "Error", "PutError"}

\* the orders in which kwargs.items() can yield the keys present (insertion
\* order from Python 3.7 on, arbitrary before)
Orders(kw) ==
    LET present == {k \in {"forum", "thread", "view"} : kw[k] # None}
    IN  {o \in UNION {[1..n -> present] : n \in 0..3} :
            Len(o) = Cardinality(present) /\ \A k \in present : \E i \in DOMAIN o : o[i] = k}

----------------------------------------------------------------------------
(* Responses *)

Response(status, kind, message, items) ==
    [status |-> status, kind |-> kind, message |-> message, items |-> items]
Error(status, message) == Response(status, "error", message, {})
Raised(name) == Response(0, "raised", name, {})
Result(r, st) == [resp |-> r, store |-> st]

----------------------------------------------------------------------------
(* The ORM (pynamodb), as the resources call it *)

\* the Python type an attribute class serializes
PyType(kind) == IF kind = "Unicode" THEN "str" ELSE "int"

\* Model.get(hash_key, range_key): the item, DoesNotExist, or an error when the
\* table is unreachable or a key value is not of the key attribute's type
ModelGet(st, h, r, fault) ==
    IF fault = "Error" \/ h.t # PyType(hash_kind) \/ (r # None /\ r.t # "str")
    THEN [outcome |-> "Error", items |-> {}]
    ELSE LET found == {x \in st : x.forum = h /\ x.thread = r}
         IN  IF found = {} THEN [outcome |-> "DoesNotExist", items |-> {}]
             ELSE [outcome |-> "found", items |-> found]

\* a filter condition is a set of conjuncts (attr == value)
Matches(x, filters) == \A c \in filters : x[c.k] = PyStr(c.v)

\* Model.query(hash_key, filter_condition) and Model.scan(filter_condition)
ModelQuery(st, h, filters) == {x \in st : x.forum = h /\ Matches(x, filters)}
ModelScan(st, filters) == {x \in st : Matches(x, filters)}

\* Model(**data).save(): the item replaces the one with its key
ModelSave(st, item) == {x \in st : ~SameKey(x, item)} \cup {item}

\* item.delete()
ModelDelete(st, item) == st \ {item}

\* an index holds the items that have its hash key attribute
IndexScan(st) == {x \in st : x.view # None}
IndexQuery(st, h) == {x \in st : x.view = h}
IndexQueryRange(st, h, r) == {x \in st : x.view = h /\ x.forum = r}

----------------------------------------------------------------------------
(* PynamoResource.dispatch_request *)

\* each path argument is replaced by its attribute's deserialize(); an exception
\* of deserialize is not caught here
dispatch_request(kwargs) ==
    [k \in DOMAIN kwargs |->
        IF kwargs[k] = None THEN None ELSE deserialize(KindOf(k), kwargs[k].v)]

DispatchRaises(kwargs) == \E k \in DOMAIN kwargs : dispatch_request(kwargs)[k].t = "exc"

----------------------------------------------------------------------------
(* ModelResource.get *)

\* getattr(self.pynamo_model, param, None): "attribute", "key", "missing" (the
\* default None) or "member" (a member of the class that is no attribute)
ModelMember(param) ==
    IF param = hash_keyname \/ (param = range_keyname /\ range_keyname # NoKey) THEN "key"
    ELSE IF param \in ModelAttrs THEN "attribute"
    ELSE IF param = "Meta" THEN "member"
    ELSE "missing"

\* _get_filter as it would be if it built no condition
_get_filter_builds_nothing(param, value) == None

\* None, a condition, or the AttributeError of reading is_hash_key off a member
\* that has none
_get_filter(param, value) ==
    CASE ModelMember(param) = "missing" -> None
      [] ModelMember(param) = "key" -> None
      [] ModelMember(param) = "member" -> Exc("AttributeError")
      [] OTHER -> [t |-> "cond", v |-> value, k |-> param]

\* the loop over request.args.items() that builds `filters`; it runs before the
\* try block.  The result is the set of conjuncts, or the exception raised.
RECURSIVE BuildFilters(_, _)
BuildFilters(args, filters) ==
    IF args = <<>> THEN [raised |-> FALSE, filters |-> filters]
    ELSE LET condition == _get_filter(Head(args).k, Head(args).v)
         IN  IF condition.t = "exc" THEN [raised |-> TRUE, filters |-> {}]
             ELSE IF condition = None THEN BuildFilters(Tail(args), filters)
             ELSE BuildFilters(Tail(args), filters \cup {[k |-> condition.k, v |-> condition.v]})

get(kwargs, args, fault, st) ==
    LET built == BuildFilters(args, {})
        filters == built.filters
    IN  IF built.raised THEN Result(Raised("AttributeError"), st)
        ELSE IF kwargs[hash_keyname] # None
        THEN IF range_keyname # NoKey /\ kwargs[range_keyname] = None
             THEN IF fault = "Error" THEN Result(Error(500, "Failed to get record"), st)
                  ELSE Result(Response(200, "list", "", ModelQuery(st, kwargs[hash_keyname], filters)), st)
             ELSE LET r == IF range_keyname # NoKey THEN kwargs[range_keyname] ELSE None
                      got == ModelGet(st, kwargs[hash_keyname], r, fault)
                  IN  CASE got.outcome = "found" -> Result(Response(200, "object", "", got.items), st)
                        [] got.outcome = "DoesNotExist" -> Result(Error(404, "Record not found"), st)
                        [] OTHER -> Result(Error(500, "Failed to get record"), st)
        ELSE IF fault = "Error" THEN Result(Error(500, "Failed to get record"), st)
             ELSE Result(Response(200, "list", "", ModelScan(st, filters)), st)

----------------------------------------------------------------------------
(* ModelResource.delete *)

\* delete as it would be if DoesNotExist were passed over and 204 returned
delete_missing_is_success(kwargs, fault, st) ==
    IF kwargs[hash_keyname] # None /\ (range_keyname = NoKey \/ kwargs[range_keyname] # None)
    THEN LET r == IF range_keyname # NoKey THEN kwargs[range_keyname] ELSE None
             got == ModelGet(st, kwargs[hash_keyname], r, fault)
         IN  CASE got.outcome = "found" ->
                    Result(Response(204, "empty", "", {}),
                           ModelDelete(st, CHOOSE x \in got.items : TRUE))
               [] got.outcome = "DoesNotExist" -> Result(Response(204, "empty", "", {}), st)
               [] OTHER -> Result(Error(500, "Failed to delete record"), st)
    ELSE Result(Error(404, "Record not found"), st)

delete(kwargs, fault, st) ==
    IF kwargs[hash_keyname] # None /\ (range_keyname = NoKey \/ kwargs[range_keyname] # None)
    THEN LET r == IF range_keyname # NoKey THEN kwargs[range_keyname] ELSE None
             got == ModelGet(st, kwargs[hash_keyname], r, fault)
         IN  CASE got.outcome = "found" ->
                    Result(Response(204, "empty", "", {}),
                           ModelDelete(st, CHOOSE x \in got.items : TRUE))
               [] got.outcome = "DoesNotExist" -> Result(Error(404, "Record not found"), st)
               [] OTHER -> Result(Error(500, "Failed to delete record"), st)
    ELSE Result(Error(404, "Record not found"), st)

----------------------------------------------------------------------------
(* ModelResource._save, post and put *)

\* the loop `for k, v in kwargs.items(): if data[k] != v`, over the keys in the
\* order given: "ok", "differ", or "KeyError" when the body lacks a key
RECURSIVE CheckKeys(_, _, _)
CheckKeys(order, kwargs, data) ==
    IF order = <<>> THEN "ok"
    ELSE LET k == Head(order)
         IN  IF data[k] = None THEN "KeyError"
             ELSE IF data[k] # kwargs[k] THEN "differ"
             ELSE CheckKeys(Tail(order), kwargs, data)

\* _deserialize_dict raises AttributeError for a key of the body that the REST
\* model does not have; no field of this model has a parse method
_deserialize_dict(data) ==
    IF data.zz \/ \E k \in {"forum", "thread", "view"} : data[k] # None /\ k \notin ModelAttrs
    THEN Exc("AttributeError")
    ELSE None

\* `'/' in data[key]`: "KeyError" when the body lacks the key, "TypeError" when
\* the value is no str, else whether it holds a slash
SlashCheck(data, key) ==
    IF data[key] = None THEN "KeyError"
    ELSE IF data[key].t # "str" THEN "TypeError"
    ELSE IF HasSlash(data[key].v) THEN "slash"
    ELSE "ok"

\* the item Model(**data) builds
NewItem(data) ==
    [forum |-> data.forum,
     thread |-> IF range_keyname # NoKey THEN data.thread ELSE None,
     view |-> data.view]

_save(create, kwargs, data, order, fault, st) ==
    IF ~data.isdict THEN Result(Error(400, "Invalid record type"), st)
    ELSE IF CheckKeys(order, kwargs, data) = "KeyError"
        THEN Result(Error(500, "KeyError"), st)
    ELSE IF CheckKeys(order, kwargs, data) = "differ"
        THEN Result(Error(400, "Cannot change hash or range keys with PUT"), st)
    ELSE IF _deserialize_dict(data) # None THEN Result(Error(400, "Invalid key"), st)
    ELSE IF SlashCheck(data, hash_keyname) \in {"KeyError", "TypeError"}
        THEN Result(Error(500, SlashCheck(data, hash_keyname)), st)
    ELSE IF SlashCheck(data, hash_keyname) = "slash"
        THEN Result(Error(400, "may not contain forward slashes"), st)
    ELSE IF range_keyname # NoKey /\ SlashCheck(data, range_keyname) \in {"KeyError", "TypeError"}
        THEN Result(Error(500, SlashCheck(data, range_keyname)), st)
    ELSE IF range_keyname # NoKey /\ SlashCheck(data, range_keyname) = "slash"
        THEN Result(Error(400, "may not contain forward slashes"), st)
    ELSE LET old_obj == ModelGet(st, NewItem(data).forum, NewItem(data).thread, fault)
         IN  IF old_obj.outcome = "Error" THEN Result(Error(500, "Failed to store record"), st)
             ELSE IF create
             THEN IF old_obj.outcome = "found"
                  THEN Result(Error(409, "Record already exists"), st)
                  ELSE IF fault = "PutError" THEN Result(Error(400, "PutError"), st)
                  ELSE Result(Response(201, "object", "", {NewItem(data)}),
                              ModelSave(st, NewItem(data)))
             ELSE IF old_obj.outcome = "found"
                  THEN IF fault = "PutError" THEN Result(Error(400, "PutError"), st)
                       ELSE Result(Response(200, "object", "", {NewItem(data)}),
                                   ModelSave(st, NewItem(data)))
                  ELSE Result(Error(404, "Record not found"), st)

post(kwargs, data, order, fault, st) == _save(TRUE, kwargs, data, order, fault, st)

put(kwargs, data, order, fault, st) == _save(FALSE, kwargs, data, order, fault, st)

----------------------------------------------------------------------------
(* IndexResource.get *)

\* an index resource's keys: its hash key is `view`, its range key `forum` or none
IndexKwargs(ix) ==
    {NoKwargs}
    \cup {[NoKwargs EXCEPT !.view = PyStr(h)] : h \in FewSegments}
    \cup (IF ix.range_keyname = NoKey THEN {}
          ELSE {[NoKwargs EXCEPT !.view = PyStr(h), !.forum = PyStr(r)] :
                    h \in FewSegments, r \in UrlSegments})

IndexResource_get(ix, kwargs, fault, st) ==
    IF fault = "Error" THEN Result(Error(500, "Failed to get record"), st)
    ELSE IF kwargs[ix.hash_keyname] # None
    THEN IF ix.range_keyname # NoKey /\ kwargs[ix.range_keyname] # None
         THEN Result(Response(200, "list", "",
                  IndexQueryRange(st, kwargs[ix.hash_keyname], kwargs[ix.range_keyname])), st)
         ELSE Result(Response(200, "list", "", IndexQuery(st, kwargs[ix.hash_keyname])), st)
    ELSE Result(Response(200, "list", "", IndexScan(st)), st)

----------------------------------------------------------------------------
(* Route registration *)

\* the secondary indexes a model can declare
ViewIndex == [name |-> "view_index", hash_keyname |-> "view", range_keyname |-> NoKey]
ViewForumIndex == [name |-> "view_forum_index", hash_keyname |-> "view", range_keyname |-> "forum"]
AllIndexes == {ViewIndex, ViewForumIndex}

Route(resource, rule, methods) == [resource |-> resource, rule |-> rule, methods |-> methods]

\* the model's routes as they would be if '/<hash>' took every method whatever
\* the topology
ModelRoutesHashTakesAll ==
    {Route("model", "/", {"get", "post"}),
     Route("model", "/<" \o hash_keyname \o ">", {"delete", "get", "put"})}
    \cup (IF range_keyname # NoKey
          THEN {Route("model", "/<" \o hash_keyname \o ">/<" \o range_keyname \o ">",
                      {"delete", "get", "put"})}
          ELSE {})

\* ModelResource._register_routes: the three ns.add_resource calls
ModelResource_register_routes ==
    {Route("model", "/", {"get", "post"}),
     Route("model", "/<" \o hash_keyname \o ">",
           IF range_keyname # NoKey THEN {"get"} ELSE {"delete", "get", "put"})}
    \cup (IF range_keyname # NoKey
          THEN {Route("model", "/<" \o hash_keyname \o ">/<" \o range_keyname \o ">",
                      {"delete", "get", "put"})}
          ELSE {})

\* an index's routes as they would be if the range-key route were left out
IndexRoutesWithoutRange(ix) ==
    {Route(ix.name, "/" \o ix.name \o "/", {"get"}),
     Route(ix.name, "/" \o ix.name \o "/<" \o ix.hash_keyname \o ">", {"get"})}

\* IndexResource._register_routes: add_resource is given no methods, so a rule
\* accepts the methods the class implements, which is get alone
IndexResource_register_routes(ix) ==
    {Route(ix.name, "/" \o ix.name \o "/", {"get"}),
     Route(ix.name, "/" \o ix.name \o "/<" \o ix.hash_keyname \o ">", {"get"})}
    \cup (IF ix.range_keyname # NoKey
          THEN {Route(ix.name, "/" \o ix.name \o "/<" \o ix.hash_keyname \o ">/<"
                                   \o ix.range_keyname \o ">", {"get"})}
          ELSE {})

\* ModelResource.register: the model's routes, then those of every index found
\* on the model
register ==
    ModelResource_register_routes
    \cup UNION {IndexResource_register_routes(ix) : ix \in indexes}

----------------------------------------------------------------------------
(* PynamoModel: attributes translated to REST fields *)

\* the keys of TYPEMAP, in the order the class body inserts them
TypemapClasses ==
    <<"BooleanAttribute", "UnicodeAttribute", "TTLAttribute", "UTCDateTimeAttribute",
      "NumberAttribute", "NumberSetAttribute", "UnicodeSetAttribute",
      "LegacyBooleanAttribute">>

\* a REST field: its class, and for a List its element field, for a Nested the
\* name of its model
Field(f) == [field |-> f, of |-> "", model |-> ""]
ListOf(e) == [field |-> "List", of |-> e.field, model |-> e.model]
Nested(name) == [field |-> "Nested", of |-> "", model |-> name]

\* TYPEMAP[p_attr]
TYPEMAP(p_attr) ==
    CASE p_attr \in {"BooleanAttribute", "LegacyBooleanAttribute"} -> Field("Boolean")
      [] p_attr = "UnicodeAttribute" -> Field("String")
      [] p_attr \in {"TTLAttribute", "UTCDateTimeAttribute"} -> Field("DateTime")
      [] p_attr = "NumberAttribute" -> Field("PynamoNumber")
      [] p_attr = "NumberSetAttribute" -> ListOf(Field("PynamoNumber"))
      [] p_attr = "UnicodeSetAttribute" -> ListOf(Field("String"))

\* the attribute classes of this model: those of TYPEMAP, MapAttribute, a
\* subclass of it (Location), ListAttribute, a subclass of NumberAttribute
\* (VersionAttribute) and two classes TYPEMAP does not name
AttrClasses ==
    {TypemapClasses[i] : i \in DOMAIN TypemapClasses}
    \cup {"MapAttribute", "Location", "ListAttribute", "VersionAttribute",
          "BinaryAttribute", "JSONAttribute"}

\* the classes an instance of cls is an instance of
Mro(cls) ==
    CASE cls = "Location" -> {"Location", "MapAttribute"}
      [] cls = "VersionAttribute" -> {"VersionAttribute", "NumberAttribute"}
      [] OTHER -> {cls}

\* an attribute instance, and an attribute class as an object (what
\* ListAttribute.element_type holds)
Attr(cls, element_type, hash_key, range_key) ==
    [cls |-> cls, isclass |-> FALSE, element_type |-> element_type,
     is_hash_key |-> hash_key, is_range_key |-> range_key]
ClassObject(cls) ==
    [cls |-> cls, isclass |-> TRUE, element_type |-> "None",
     is_hash_key |-> FALSE, is_range_key |-> FALSE]

\* isinstance(attr, cls): a class object is an instance of no attribute class
IsInstance(attr, cls) == ~attr.isclass /\ cls \in Mro(attr.cls)

\* isinstance(attr, self.MAPMETA): the classes the metaclass of MapAttribute built
IsMapMeta(attr) == attr.isclass /\ "MapAttribute" \in Mro(attr.cls)

\* the loop over TYPEMAP.items(): the field of the first entry the attribute is
\* an instance of, Raw when there is none
RECURSIVE TypemapLookup(_, _)
TypemapLookup(attr, order) ==
    IF order = <<>> THEN Field("Raw")
    ELSE IF IsInstance(attr, Head(order)) THEN TYPEMAP(Head(order))
    ELSE TypemapLookup(attr, Tail(order))

\* _get_or_create_nested: the Nested field of the model named <self.name>.<name>
_get_or_create_nested(self_name, name) == Nested(self_name \o "." \o name)

\* _translate_attribute.  The element type of a ListAttribute is passed on as
\* the class object it is, under its __name__.
RECURSIVE _translate_attribute(_, _, _, _)
_translate_attribute(self_name, name, attr, order) ==
    IF IsInstance(attr, "MapAttribute")
    THEN IF attr.cls = "MapAttribute" THEN Field("PynamoMapAttribute")
         ELSE _get_or_create_nested(self_name, attr.cls)
    ELSE IF IsMapMeta(attr) THEN _get_or_create_nested(self_name, name)
    ELSE IF IsInstance(attr, "ListAttribute")
    THEN IF attr.element_type # "None"
         THEN ListOf(_translate_attribute(self_name, attr.element_type,
                                          ClassObject(attr.element_type), order))
         ELSE ListOf(Field("String"))
    ELSE TypemapLookup(attr, order)

\* project_keys as it would be if an IncludeProjection were taken for an
\* AllProjection
project_keys_include_is_all(b) ==
    CASE b.projection \in {"IncludeProjection", "AllProjection"} -> DOMAIN b.model
      [] OTHER -> {}

\* the names the projection of an index asks for: non_key_attributes of an
\* IncludeProjection, every attribute of the parent model for an AllProjection,
\* none for any other projection
project_keys(b) ==
    CASE b.projection = "IncludeProjection" -> b.non_key_attributes
      [] b.projection = "AllProjection" -> DOMAIN b.model
      [] OTHER -> {}

\* _translate as it would be if the projection loop marked keys required too
_translate_requires_projected_keys(b, order) ==
    LET own == [n \in DOMAIN b.attrs |-> _translate_attribute(b.name, n, b.attrs[n], order)]
        projected ==
            IF b.kind = "index"
            THEN [n \in DOMAIN b.model \cap project_keys(b) |->
                      _translate_attribute(b.name, n, b.model[n], order)]
            ELSE [n \in {} |-> Field("Raw")]
    IN  [fields |-> projected @@ own,
         required |-> {n \in DOMAIN b.attrs :
                          b.attrs[n].is_hash_key \/ b.attrs[n].is_range_key}
                      \cup {n \in DOMAIN projected :
                               b.model[n].is_hash_key \/ b.model[n].is_range_key}]

\* PynamoModel.__init__ and _translate: a field per attribute of the base, the
\* key attributes of the base required, then a field per projected attribute
\* of the parent model of an index
_translate(b, order) ==
    LET own == [n \in DOMAIN b.attrs |-> _translate_attribute(b.name, n, b.attrs[n], order)]
        projected ==
            IF b.kind = "index"
            THEN [n \in DOMAIN b.model \cap project_keys(b) |->
                      _translate_attribute(b.name, n, b.model[n], order)]
            ELSE [n \in {} |-> Field("Raw")]
    IN  [fields |-> projected @@ own,
         required |-> {n \in DOMAIN b.attrs :
                          b.attrs[n].is_hash_key \/ b.attrs[n].is_range_key}]

\* the _schema property
_schema(m) == [required |-> m.required, properties |-> m.fields, type |-> "object"]

\* the attributes `view` can be declared as: one of each class, a ListAttribute
\* of each element class or of none
ViewAttrs ==
    {Attr(c, "None", FALSE, FALSE) : c \in AttrClasses}
    \cup {Attr("ListAttribute", e, FALSE, FALSE) : e \in AttrClasses}

\* the attributes of the model: forum, optionally thread, and view
ModelAttributes(has_range, view) ==
    IF has_range
    THEN [n \in {"forum", "thread", "view"} |->
            CASE n = "forum" -> Attr("UnicodeAttribute", "None", TRUE, FALSE)
              [] n = "thread" -> Attr("UnicodeAttribute", "None", FALSE, TRUE)
              [] OTHER -> view]
    ELSE [n \in {"forum", "view"} |->
            CASE n = "forum" -> Attr("UnicodeAttribute", "None", TRUE, FALSE)
              [] OTHER -> view]

\* the attributes of an index on view, with forum as range key or without
IndexAttributes(has_range, view) ==
    IF has_range
    THEN [n \in {"view", "forum"} |->
            CASE n = "view" -> [view EXCEPT !.is_hash_key = TRUE]
              [] OTHER -> Attr("UnicodeAttribute", "None", FALSE, TRUE)]
    ELSE [n \in {"view"} |-> [view EXCEPT !.is_hash_key = TRUE]]

NoAttrs == [n \in {} |-> Attr("UnicodeAttribute", "None", FALSE, FALSE)]

ModelBase(attrs) ==
    [kind |-> "model", name |-> "TestModelResource", attrs |-> attrs,
     projection |-> "None", non_key_attributes |-> {}, model |-> NoAttrs]

IndexBase(attrs, projection, non_key_attributes, model) ==
    [kind |-> "index", name |-> "ViewIndexResource", attrs |-> attrs,
     projection |-> projection, non_key_attributes |-> non_key_attributes, model |-> model]

\* the models and the indexes a PynamoModel is built for
Bases ==
    LET models == {ModelAttributes(r, v) : r \in BOOLEAN, v \in ViewAttrs}
    IN  {ModelBase(m) : m \in models}
        \cup {IndexBase(IndexAttributes(r, m["view"]), "AllProjection", {}, m) :
                 r \in BOOLEAN, m \in models}
        \cup {IndexBase(IndexAttributes(r, m["view"]), "KeysOnlyProjection", {}, m) :
                 r \in BOOLEAN, m \in models}
        \cup UNION {{IndexBase(IndexAttributes(r, m["view"]), "IncludeProjection", nk, m) :
                        nk \in SUBSET (DOMAIN m \cup {"zz"})} : r \in BOOLEAN, m \in models}

\* the sequence s rotated by i, and reversed
Rotate(s, i) == [j \in 1..Len(s) |-> s[((j + i - 1) % Len(s)) + 1]]
Reverse(s) == [j \in 1..Len(s) |-> s[Len(s) + 1 - j]]

\* iteration orders of TYPEMAP: insertion order in Python 3.7 and later,
\* arbitrary before
TypemapOrders ==
    {Rotate(TypemapClasses, i) : i \in 0..(Len(TypemapClasses) - 1)}
    \cup {Rotate(Reverse(TypemapClasses), i) : i \in 0..(Len(TypemapClasses) - 1)}

NoBase == ModelBase(NoAttrs)
NoModel == [fields |-> [n \in {} |-> Field("Raw")], required |-> {"-"}]

----------------------------------------------------------------------------
(* The POST requests in progress *)

\* the requests in progress: each is served by its own thread or worker
Procs == {1, 2}

\* the values the bodies of these requests give the key attributes
PostKeyValues == {PyStr(<<"1">>), PyStr(<<"2">>), PyInt(<<"1">>)}

\* their bodies: JSON objects of forum, thread and view
PostBodies ==
    [isdict : {TRUE}, forum : PostKeyValues, thread : PostKeyValues \cup {None},
     view : ViewValues, zz : {FALSE}]

NoPost == [pc |-> "idle", data |-> NoData, fault |-> "none", resp |-> NoResp]
NoPosts == [p \in Procs |-> NoPost]

----------------------------------------------------------------------------
(* ModelResource.register: the Api of an application *)

\* the applications: the Flask application and the blueprint api_v1
Apps == {"app", "api_v1"}

\* `app` has no __api__ attribute; an Api object is named by its place in `apis`
NoApi == 0

\* what register is handed as `app`: an application, or the Api at place i
AppObject(a) == [app |-> a, api |-> NoApi]
ApiObject(i) == [app |-> "Api", api |-> i]

\* isinstance(app, Api)
IsApi(target) == target.api # NoApi

\* the model classes resources are created for, with their Meta.table_name
Models == {"TestModel", "GameModel"}
table_name(m) == m

\* the url_prefix arguments: absent (None), empty, or given
UrlPrefixes == {"None", "", "/threads"}

\* Api(app, doc='/doc'): a new Api holds the default namespace
Api(a, by) == [app |-> a, by |-> by, doc |-> "/doc", namespaces |-> <<"default">>]

\* Namespace(cls.pynamo_model.__name__, description, url_prefix)
Namespace(m, path) == [name |-> m, path |-> path]

\* `if not url_prefix: url_prefix = '/{0}'.format(table_name)`
url_prefix_or_default(url_prefix, m) ==
    IF url_prefix \in {"None", ""} THEN "/" \o table_name(m) ELSE url_prefix

\* the Api lookup as it would be without the `hasattr(app, '__api__')` branch
api_for_always_creates(target, attrs, objects) ==
    IF IsApi(target)
    THEN [api |-> target.api, app_api |-> attrs, apis |-> objects]
    ELSE [api |-> Len(objects) + 1,
          app_api |-> [attrs EXCEPT ![target.app] = Len(objects) + 1],
          apis |-> Append(objects, Api(target.app, "register"))]

\* the Api register uses: `app` itself when it is an Api, else app.__api__ when
\* the attribute is there, else a new Api stored as app.__api__
api_for(target, attrs, objects) ==
    IF IsApi(target)
    THEN [api |-> target.api, app_api |-> attrs, apis |-> objects]
    ELSE IF attrs[target.app] # NoApi
    THEN [api |-> attrs[target.app], app_api |-> attrs, apis |-> objects]
    ELSE [api |-> Len(objects) + 1,
          app_api |-> [attrs EXCEPT ![target.app] = Len(objects) + 1],
          apis |-> Append(objects, Api(target.app, "register"))]

\* api.add_namespace(ns)
add_namespace(objects, i, ns) ==
    [objects EXCEPT ![i].namespaces = Append(@, ns)]

\* ModelResource.register(app, url_prefix) of the resource of model m
ModelResource_register(target, m, url_prefix, attrs, objects) ==
    LET found == api_for(target, attrs, objects)
        ns == Namespace(m, url_prefix_or_default(url_prefix, m))
    IN  [api |-> found.api, app_api |-> found.app_api,
         apis |-> add_namespace(found.apis, found.api, ns)]

NoCall ==
    [n |-> 0, target |-> AppObject("None"), model |-> "None", url_prefix |-> "None", api |-> NoApi,
     app_api0 |-> [a \in Apps |-> NoApi], apis0 |-> <<>>]

ApiInit ==
    /\ app_api = [a \in Apps |-> NoApi]
    /\ apis = <<>>
    /\ call = NoCall

\* the application code constructs an Api of its own for an application
UserApi ==
    /\ Cardinality({i \in DOMAIN apis : apis[i].by = "user"}) < MaxUserApis
    /\ \E a \in Apps : apis' = Append(apis, Api(a, "user"))
    /\ UNCHANGED <<app_api, call, resource_vars, schema_vars, conc_vars>>

\* create_resource(m).register(target, url_prefix)
RegisterCall ==
    /\ call.n < MaxCalls
    /\ \E target \in {AppObject(a) : a \in Apps} \cup {ApiObject(i) : i \in DOMAIN apis},
          m \in Models, url_prefix \in UrlPrefixes :
          LET done == ModelResource_register(target, m, url_prefix, app_api, apis)
          IN  /\ app_api' = done.app_api
              /\ apis' = done.apis
              /\ call' = [n |-> call.n + 1, target |-> target, model |-> m,
                          url_prefix |-> url_prefix, api |-> done.api,
                          app_api0 |-> app_api, apis0 |-> apis]
    /\ UNCHANGED <<resource_vars, schema_vars, conc_vars>>

ApiNext == UserApi \/ RegisterCall

\* no application has an Api yet; a hash-only model, its table empty
ApiStart ==
    /\ hash_kind = "Unicode"
    /\ range_keyname = NoKey
    /\ indexes = {}
    /\ routes = {}
    /\ store = {}
    /\ store0 = {}
    /\ req = NoReq
    /\ resp = NoResp
    /\ base = NoBase
    /\ typemap_order = TypemapClasses
    /\ rest_model = NoModel
    /\ ApiInit
    /\ posts = NoPosts

ApiSpec == ApiStart /\ [][ApiNext]_vars

----------------------------------------------------------------------------
(* POST requests served at the same time *)

\* _save returns before new_obj.save() unless the record was looked up and not
\* found: the outcomes that come from the save itself
ReachesSave(r) ==
    r.status = 201 \/ (r.status = 400 /\ r.message = "PutError")

\* _save(create=True) from the request body to `old_obj = pynamo_model.get(...)`:
\* the checks of the body and the lookup of the record, which reads the table
\* as it is now; the request is answered (400, 409, 500) or goes on to save
PostLookup(p) ==
    /\ posts[p].pc = "idle"
    /\ \E data \in PostBodies, fault \in Faults :
          LET r == post(NoKwargs, data, <<>>, fault, store).resp
          IN  posts' = [posts EXCEPT ![p] =
                           IF ReachesSave(r)
                           THEN [pc |-> "save", data |-> data, fault |-> fault, resp |-> NoResp]
                           ELSE [pc |-> "done", data |-> data, fault |-> fault, resp |-> r]]
    /\ UNCHANGED <<resource_vars, schema_vars, api_vars>>

\* `new_obj = self.pynamo_model(**data); new_obj.save()` and the 201: the save
\* puts the item whatever the table holds by now
PostSave(p) ==
    /\ posts[p].pc = "save"
    /\ LET data == posts[p].data
           failed == posts[p].fault = "PutError"
       IN  /\ store' = IF failed THEN store ELSE ModelSave(store, NewItem(data))
           /\ posts' = [posts EXCEPT ![p].pc = "done",
                                     ![p].resp = IF failed THEN Error(400, "PutError")
                                                 ELSE Response(201, "object", "", {NewItem(data)})]
    /\ UNCHANGED <<hash_kind, range_keyname, indexes, routes, store0, req, resp,
                   schema_vars, api_vars>>

ConcNext == \E p \in Procs : PostLookup(p) \/ PostSave(p)

\* a registered model and its table; no request has arrived
ConcInit ==
    /\ hash_kind \in {"Unicode", "Number"}
    /\ range_keyname \in {NoKey, "thread"}
    /\ indexes = {}
    /\ routes = register
    /\ store \in {st \in SUBSET Items : IsTable(st) /\ Cardinality(st) <= MaxRecords}
    /\ store0 = store
    /\ req = NoReq
    /\ resp = NoResp
    /\ base = NoBase
    /\ typemap_order = TypemapClasses
    /\ rest_model = NoModel
    /\ ApiInit
    /\ posts = NoPosts

ConcSpec == ConcInit /\ [][ConcNext]_vars

----------------------------------------------------------------------------
(* The state machine *)

Init ==
    /\ hash_kind \in {"Unicode", "Number"}
    /\ range_keyname \in {NoKey, "thread"}
    /\ indexes \in SUBSET AllIndexes
    /\ routes = {}
    /\ store \in {st \in SUBSET Items : IsTable(st) /\ Cardinality(st) <= MaxRecords}
    /\ store0 = store
    /\ req = NoReq
    /\ resp = NoResp
    /\ base = NoBase
    /\ typemap_order = TypemapClasses
    /\ rest_model = NoModel
    /\ ApiInit
    /\ posts = NoPosts

Idle == routes # {} /\ resp.kind = "none"

\* a request is served: its response and the table it leaves
Serve(r, result) ==
    /\ req' = r
    /\ resp' = result.resp
    /\ store0' = store
    /\ store' = result.store
    /\ UNCHANGED <<hash_kind, range_keyname, indexes, routes, schema_vars, api_vars, conc_vars>>

Request(op, resource, kwargs, data, args, fault) ==
    [op |-> op, resource |-> resource, kwargs |-> kwargs, data |-> data,
     args |-> args, fault |-> fault]

Register ==
    /\ routes = {}
    /\ routes' = register
    /\ UNCHANGED <<hash_kind, range_keyname, indexes, store, store0, req, resp, schema_vars, api_vars, conc_vars>>

Get ==
    /\ Idle
    /\ \E kwargs \in ModelKwargs, args \in QueryArgs, fault \in {"none", "Error"} :
          Serve(Request("GET", "model", kwargs, NoData, args, fault),
                IF DispatchRaises(kwargs) THEN Result(Raised("ValueError"), store)
                ELSE get(dispatch_request(kwargs), args, fault, store))

Delete ==
    /\ Idle
    /\ \E kwargs \in ModelKwargs, fault \in {"none", "Error"} :
          Serve(Request("DELETE", "model", kwargs, NoData, <<>>, fault),
                IF DispatchRaises(kwargs) THEN Result(Raised("ValueError"), store)
                ELSE delete(dispatch_request(kwargs), fault, store))

Post ==
    /\ Idle
    /\ \E kwargs \in ModelKwargs, data \in Bodies, fault \in Faults :
       \E order \in Orders(kwargs) :
          Serve(Request("POST", "model", kwargs, data, <<>>, fault),
                IF DispatchRaises(kwargs) THEN Result(Raised("ValueError"), store)
                ELSE post(dispatch_request(kwargs), data, order, fault, store))

Put ==
    /\ Idle
    /\ \E kwargs \in ModelKwargs, data \in Bodies, fault \in Faults :
       \E order \in Orders(kwargs) :
          Serve(Request("PUT", "model", kwargs, data, <<>>, fault),
                IF DispatchRaises(kwargs) THEN Result(Raised("ValueError"), store)
                ELSE put(dispatch_request(kwargs), data, order, fault, store))

IndexGet ==
    /\ Idle
    /\ \E ix \in indexes, fault \in {"none", "Error"} :
       \E kwargs \in IndexKwargs(ix) :
          Serve(Request("GET", ix.name, kwargs, NoData, <<>>, fault),
                IF DispatchRaises(kwargs) THEN Result(Raised("ValueError"), store)
                ELSE IndexResource_get(ix, dispatch_request(kwargs), fault, store))

\* the response has been sent; the resource waits for the next request
Reply ==
    /\ resp.kind # "none"
    /\ req' = NoReq
    /\ resp' = NoResp
    /\ store0' = store
    /\ UNCHANGED <<hash_kind, range_keyname, indexes, routes, store, schema_vars, api_vars, conc_vars>>

Next == Register \/ Get \/ Delete \/ Post \/ Put \/ IndexGet \/ Reply

Spec == Init /\ [][Next]_vars

\* PynamoModel(name, base, namespace) for every base and every order of TYPEMAP
SchemaInit ==
    /\ hash_kind = "Unicode"
    /\ range_keyname = NoKey
    /\ indexes = {}
    /\ routes = {}
    /\ store = {}
    /\ store0 = {}
    /\ req = NoReq
    /\ resp = NoResp
    /\ base \in Bases
    /\ typemap_order \in TypemapOrders
    /\ rest_model = NoModel
    /\ ApiInit
    /\ posts = NoPosts

Translate ==
    /\ rest_model = NoModel
    /\ rest_model' = _translate(base, typemap_order)
    /\ UNCHANGED <<resource_vars, base, typemap_order, api_vars, conc_vars>>

SchemaNext == Translate

SchemaSpec == SchemaInit /\ [][SchemaNext]_vars

TypeOK ==
    /\ IsTable(store) /\ store \subseteq Items
    /\ resp.status \in {0, 200, 201, 204, 400, 404, 409, 500}

----------------------------------------------------------------------------
(* The claims about the model resource's handlers *)

\* the last request was handled by the named handler of the model resource
Handled(op) == req.op = op /\ req.resource = "model" /\ resp.kind \notin {"none", "raised"}

\* the URL keys of the last request, deserialized
UrlKeys == dispatch_request(req.kwargs)

\* the items of a table with the key (h, r)
WithKey(st, h, r) == {x \in st : x.forum = h /\ x.thread = r}

\* the keys of a table
KeysOf(st) == {<<x.forum, x.thread>> : x \in st}

\* the body is a record of the model: its keys are attributes of the model and
\* it gives the hash key, and the range key of a range-keyed model, a value of
\* the attribute's type
ValidRecord(data) ==
    /\ data.isdict /\ ~data.zz
    /\ data.forum \in HashValues
    /\ data.thread \in RangeValues

\* the item a valid body describes
BodyItem(data) == [forum |-> data.forum, thread |-> data.thread, view |-> data.view]

\* C1: a POST of a record whose key is already in the table returns 409 'Record
\* already exists' and leaves the table unchanged; otherwise the table gains
\* exactly one record, with that key, and the POST returns 201.
C1_PostCreatesOrConflicts ==
    (Handled("POST") /\ req.kwargs = NoKwargs /\ req.fault = "none" /\ ValidRecord(req.data)) =>
        IF WithKey(store0, req.data.forum, req.data.thread) # {}
        THEN resp.status = 409 /\ resp.message = "Record already exists" /\ store = store0
        ELSE /\ resp.status = 201
             /\ store = store0 \cup {BodyItem(req.data)}
             /\ Cardinality(store) = Cardinality(store0) + 1

\* the URL names the record of the body (or names no key)
UrlMatchesBody ==
    \A k \in {"forum", "thread"} : UrlKeys[k] # None => req.data[k] = UrlKeys[k]

\* C2: a PUT of a record whose key is not in the table returns 404 'Record not
\* found' and leaves the table unchanged, no PUT adds a key to the table, and
\* a PUT of a record whose key is in the table saves the body and returns 200.
C2_PutUpdatesExisting ==
    /\ Handled("PUT") => KeysOf(store) \subseteq KeysOf(store0)
    /\ (Handled("PUT") /\ UrlMatchesBody /\ req.fault = "none" /\ ValidRecord(req.data)) =>
          IF WithKey(store0, req.data.forum, req.data.thread) = {}
          THEN resp.status = 404 /\ resp.message = "Record not found" /\ store = store0
          ELSE /\ resp.status = 200
               /\ store = (store0 \ WithKey(store0, req.data.forum, req.data.thread))
                              \cup {BodyItem(req.data)}

\* the body gives a URL key a value other than the URL's
BodyChangesKey ==
    /\ req.data.isdict
    /\ \E k \in {"forum", "thread"} :
          UrlKeys[k] # None /\ req.data[k] # None /\ req.data[k] # UrlKeys[k]

\* the body gives every URL key a value
BodyHasUrlKeys == \A k \in {"forum", "thread"} : UrlKeys[k] # None => req.data[k] # None

\* C3 (as stated): every PUT whose body gives the hash or range key a value
\* other than the URL's is answered 400 'Cannot change hash or range keys with
\* PUT' and changes no record.
C3_KeyChangeRejected ==
    (Handled("PUT") /\ BodyChangesKey) =>
        /\ resp.status = 400
        /\ resp.message = "Cannot change hash or range keys with PUT"
        /\ store = store0

\* what _save does guarantee of such a PUT: it changes no record, and it is
\* answered 400 'Cannot change hash or range keys with PUT' when the body
\* carries every key of the URL, and otherwise either so or 500 (the KeyError
\* of the missing key).
C3_KeyChangeRejectedAmended ==
    (Handled("PUT") /\ BodyChangesKey) =>
        /\ store = store0
        /\ \/ resp.status = 400 /\ resp.message = "Cannot change hash or range keys with PUT"
           \/ resp.status = 500 /\ resp.message = "KeyError" /\ ~BodyHasUrlKeys

\* the URL carries the full key of the model
FullKey == UrlKeys.forum # None /\ (range_keyname # NoKey => UrlKeys.thread # None)

RequestFilters ==
    {[k |-> req.args[i].k, v |-> req.args[i].v] :
        i \in {j \in DOMAIN req.args :
                  req.args[j].k \in ModelAttrs \ {hash_keyname, range_keyname}}}

Satisfies(x) == \A c \in RequestFilters : x[c.k] = PyStr(c.v)

\* what a GET answers when the table can be read: `listed` is the list a scan
\* or a query returns
GetAnswer(listed) ==
    IF UrlKeys.forum = None \/ ~FullKey
    THEN resp.status = 200 /\ resp.kind = "list" /\ resp.items = listed
    ELSE IF WithKey(store0, UrlKeys.forum, UrlKeys.thread) # {}
         THEN /\ resp.status = 200 /\ resp.kind = "object"
              /\ resp.items = WithKey(store0, UrlKeys.forum, UrlKeys.thread)
         ELSE resp.status = 404 /\ resp.message = "Record not found"

ModelRoutes == {[rule |-> r.rule, methods |-> r.methods] : r \in {q \in routes : q.resource = "model"}}

\* C6: a hash-only model gets '/' with GET and POST and '/<hash>' with DELETE,
\* GET and PUT, and no other route; a hash+range model gets '/' with GET and
\* POST, '/<hash>' with GET only and '/<hash>/<range>' with DELETE, GET and
\* PUT.  POST is accepted on '/' only, DELETE and PUT only on the route that
\* carries the full key.
C6_RouteTable ==
    routes # {} =>
        /\ ModelRoutes =
              IF range_keyname = NoKey
              THEN {[rule |-> "/", methods |-> {"get", "post"}],
                    [rule |-> "/<forum>", methods |-> {"delete", "get", "put"}]}
              ELSE {[rule |-> "/", methods |-> {"get", "post"}],
                    [rule |-> "/<forum>", methods |-> {"get"}],
                    [rule |-> "/<forum>/<thread>", methods |-> {"delete", "get", "put"}]}
        /\ \A r \in ModelRoutes :
              /\ "post" \in r.methods => r.rule = "/"
              /\ r.methods \cap {"delete", "put"} # {} =>
                    r.rule = (IF range_keyname = NoKey THEN "/<forum>" ELSE "/<forum>/<thread>")

\* a range-keyed model has been registered
C6_Witness == routes # {} /\ range_keyname # NoKey /\ Cardinality(ModelRoutes) = 3

\* the rules registered for a resource
RulesOf(name) == {r.rule : r \in {q \in routes : q.resource = name}}

\* the last request was a GET of an index resource
IndexRequest == req.resource \notin {"none", "model"} /\ resp.kind # "none"

\* C7: every secondary index of the model is registered with the routes
\* '/<name>/', '/<name>/<hash>' and, only when it has a range key,
\* '/<name>/<hash>/<range>'; no route of an index accepts POST, PUT or DELETE;
\* a GET of an index answers a list (the index scanned, queried by hash key, or
\* queried by hash key and range key equality), never a single record and
\* never 404; and no request to an index changes the table.
C7_IndexReadOnly ==
    /\ routes # {} =>
          /\ {r.resource : r \in routes} = {"model"} \cup {ix.name : ix \in indexes}
          /\ ViewIndex \in indexes =>
                RulesOf("view_index") = {"/view_index/", "/view_index/<view>"}
          /\ ViewForumIndex \in indexes =>
                RulesOf("view_forum_index") =
                    {"/view_forum_index/", "/view_forum_index/<view>",
                     "/view_forum_index/<view>/<forum>"}
          /\ \A r \in routes : r.resource # "model" => r.methods = {"get"}
    /\ IndexRequest =>
          /\ req.op = "GET"
          /\ store = store0
          /\ resp.status # 404 /\ resp.kind # "object"
          /\ resp.status = 200 => resp.kind = "list"
          /\ (resp.kind # "raised" /\ req.fault = "none") =>
                /\ resp.status = 200
                /\ resp.items =
                      IF UrlKeys.view = None THEN {x \in store0 : x.view # None}
                      ELSE IF UrlKeys.forum = None THEN {x \in store0 : x.view = UrlKeys.view}
                      ELSE {x \in store0 : x.view = UrlKeys.view /\ x.forum = UrlKeys.forum}

\* an index with a range key is queried by hash key and range key
C7_Witness ==
    /\ IndexRequest /\ req.resource = "view_forum_index"
    /\ UrlKeys.view # None /\ UrlKeys.forum # None
    /\ resp.kind = "list" /\ resp.items # {} /\ resp.items # store0
    /\ "/view_forum_index/<view>/<forum>" \in RulesOf("view_forum_index")
    /\ "/view_index/<view>" \in RulesOf("view_index")

\* the statuses each handler documents
DocumentedStatus(op) ==
    CASE op = "GET" -> {200, 404, 500}
      [] op = "DELETE" -> {204, 404, 500}
      [] op = "POST" -> {201, 400, 409, 500}
      [] op = "PUT" -> {200, 400, 404, 500}

\* C8: every failure while a GET, DELETE, POST or PUT of the model resource is
\* handled, building the filters and deserializing the path arguments
\* included, becomes an HTTP error response and never leaves the resource as
\* an exception, so the status is always one the handler documents.
C8_FailuresBecomeResponses ==
    (req.resource = "model" /\ resp.kind # "none") =>
        /\ resp.kind # "raised"
        /\ resp.status \in DocumentedStatus(req.op)

\* a response of the model resource, when there is one, has a documented status
StatusDocumented == Handled(req.op) => resp.status \in DocumentedStatus(req.op)

----------------------------------------------------------------------------
(* The claims about the generated schema *)

Translated == rest_model # NoModel

\* a field without the name of its nested model
FieldKind(f) == [field |-> f.field, of |-> f.of]

\* the field the stated table gives an attribute of a class
RECURSIVE TableField(_, _)
TableField(cls, element_type) ==
    CASE Mro(cls) \cap {"BooleanAttribute", "LegacyBooleanAttribute"} # {} ->
            [field |-> "Boolean", of |-> ""]
      [] "UnicodeAttribute" \in Mro(cls) -> [field |-> "String", of |-> ""]
      [] Mro(cls) \cap {"TTLAttribute", "UTCDateTimeAttribute"} # {} ->
            [field |-> "DateTime", of |-> ""]
      [] "NumberAttribute" \in Mro(cls) -> [field |-> "PynamoNumber", of |-> ""]
      [] "NumberSetAttribute" \in Mro(cls) -> [field |-> "List", of |-> "PynamoNumber"]
      [] "UnicodeSetAttribute" \in Mro(cls) -> [field |-> "List", of |-> "String"]
      [] cls = "MapAttribute" -> [field |-> "PynamoMapAttribute", of |-> ""]
      [] "MapAttribute" \in Mro(cls) -> [field |-> "Nested", of |-> ""]
      [] "ListAttribute" \in Mro(cls) ->
            [field |-> "List",
             of |-> IF element_type = "None" THEN "String"
                    ELSE TableField(element_type, "None").field]
      [] OTHER -> [field |-> "Raw", of |-> ""]

\* C9: the field of an attribute is the one the table gives its class -
\* Boolean and LegacyBoolean: Boolean, Unicode: String, TTL and UTCDateTime:
\* DateTime, Number: PynamoNumber, NumberSet: List of PynamoNumber, UnicodeSet:
\* List of String, MapAttribute: PynamoMapAttribute, a MapAttribute subclass:
\* Nested, ListAttribute: List of the field of its element type (String when
\* it has none), any other: Raw - and does not depend on the order in which
\* TYPEMAP is iterated.
C9_TranslationTable ==
    Translated =>
        /\ \A n \in DOMAIN base.attrs :
              FieldKind(rest_model.fields[n]) =
                  TableField(base.attrs[n].cls, base.attrs[n].element_type)
        /\ rest_model = _translate(base, TypemapClasses)

\* the translation does not depend on the order in which TYPEMAP is iterated
TranslationOrderFree == Translated => rest_model = _translate(base, TypemapClasses)

\* the attributes of a ListAttribute-free base get the field of the table
TableHoldsWithoutElementTypes ==
    Translated =>
        \A n \in DOMAIN base.attrs :
            base.attrs[n].element_type = "None" =>
                FieldKind(rest_model.fields[n]) = TableField(base.attrs[n].cls, "None")

\* the key attributes of a base: forum and thread of the model, view and forum
\* of the index
KeyNames(b) ==
    IF b.kind = "model" THEN {"forum", "thread"} \cap DOMAIN b.attrs
    ELSE {"view", "forum"} \cap DOMAIN b.attrs

\* the names the projection of an index adds from its parent model
ProjectedNames(b) ==
    IF b.kind # "index" THEN {}
    ELSE IF b.projection = "AllProjection" THEN DOMAIN b.model
    ELSE IF b.projection = "IncludeProjection" THEN b.non_key_attributes \cap DOMAIN b.model
    ELSE {}

\* C10: the schema of a model or index has one property per translated
\* attribute, and its `required` is exactly the key attributes of the base: no
\* non-key attribute is required, and no attribute the projection of an index
\* adds from the parent model is.
C10_RequiredAreKeys ==
    Translated =>
        LET schema == _schema(rest_model)
        IN  /\ DOMAIN schema.properties = DOMAIN base.attrs \cup ProjectedNames(base)
            /\ schema.required = KeyNames(base)
            /\ \A n \in DOMAIN schema.properties \ DOMAIN base.attrs : n \notin schema.required

\* an index that projects every attribute of a range-keyed model: the keys of
\* the model are properties of its schema and are not required
C10_Witness ==
    /\ Translated /\ base.kind = "index" /\ base.projection = "AllProjection"
    /\ DOMAIN base.attrs = {"view"}
    /\ {"forum", "thread"} \subseteq DOMAIN rest_model.fields
    /\ rest_model.required = {"view"}

\* C11: the schema of an index holds the attributes of the index and those its
\* projection exposes - every attribute of the parent model with AllProjection,
\* exactly the parent-model attributes named in non_key_attributes with
\* IncludeProjection, none with any other projection - so an attribute that is
\* neither projected nor an attribute of the index is never in the schema; a
\* projected attribute has the field of the parent model's attribute.
C11_IndexSchemaProjection ==
    (Translated /\ base.kind = "index") =>
        LET properties == DOMAIN _schema(rest_model).properties
            own == DOMAIN base.attrs
            parent == DOMAIN base.model
        IN  /\ own \subseteq properties
            /\ base.projection = "AllProjection" => properties = own \cup parent
            /\ base.projection = "IncludeProjection" =>
                  properties = own \cup {n \in parent : n \in base.non_key_attributes}
            /\ base.projection \notin {"AllProjection", "IncludeProjection"} =>
                  properties = own
            /\ \A n \in properties \ own :
                  rest_model.fields[n] =
                      _translate_attribute(base.name, n, base.model[n], typemap_order)

\* an index that includes `thread` and a name the parent model does not have:
\* its schema gains thread alone, and leaves out the unprojected forum
C11_Witness ==
    /\ Translated /\ base.kind = "index" /\ base.projection = "IncludeProjection"
    /\ base.non_key_attributes = {"thread", "zz"}
    /\ DOMAIN base.model = {"forum", "thread", "view"}
    /\ DOMAIN base.attrs = {"view"}
    /\ DOMAIN rest_model.fields = {"view", "thread"}

----------------------------------------------------------------------------
(* The claims about the Api of an application *)

\* the Api objects register has created for an application
MadeFor(a) == {i \in DOMAIN apis : apis[i].by = "register" /\ apis[i].app = a}

\* the Api objects of a list that register has created
Made(objects) == {i \in DOMAIN objects : objects[i].by = "register"}

\* the namespaces an Api held before the last call of register
NamespacesBefore(i) ==
    IF i \in DOMAIN call.apis0 THEN call.apis0[i].namespaces ELSE <<"default">>

\* C12: after any sequence of register calls, register has created exactly one
\* Api for each application or blueprint it was called on, and none for the
\* others: the first call on an application creates the Api and stores it as
\* app.__api__, a later call reuses that object, a call given an Api uses it
\* and creates none; and each call adds exactly one namespace, to the Api it
\* uses, with the url_prefix given, or '/<table_name>' when none (or an empty
\* one) is given.
C12_OneApiPerApp ==
    /\ \A a \in Apps :
          /\ Cardinality(MadeFor(a)) <= 1
          /\ MadeFor(a) = (IF app_api[a] = NoApi THEN {} ELSE {app_api[a]})
    /\ call.n > 0 =>
          LET a == call.target.app
              reused == IsApi(call.target) \/ call.app_api0[a] # NoApi
          IN  /\ IsApi(call.target) => call.api = call.target.api
              /\ (~IsApi(call.target) /\ call.app_api0[a] # NoApi) =>
                    call.api = call.app_api0[a]
              /\ reused => Made(apis) = Made(call.apis0) /\ app_api = call.app_api0
              /\ ~reused =>
                    /\ Made(apis) = Made(call.apis0) \cup {call.api}
                    /\ call.api \notin DOMAIN call.apis0
                    /\ apis[call.api].app = a
                    /\ app_api = [call.app_api0 EXCEPT ![a] = call.api]
              /\ \A i \in DOMAIN apis :
                    apis[i].namespaces =
                        IF i = call.api
                        THEN Append(NamespacesBefore(i),
                                    [name |-> call.model,
                                     path |-> IF call.url_prefix \in {"None", ""}
                                              THEN "/" \o call.model
                                              ELSE call.url_prefix])
                        ELSE NamespacesBefore(i)

\* a second call on the blueprint reuses the Api the first created, next to an
\* Api the application code made itself: both namespaces are on the one Api
C12_Witness ==
    /\ call.n >= 2 /\ ~IsApi(call.target) /\ call.target.app = "api_v1"
    /\ call.app_api0["api_v1"] # NoApi /\ call.api = app_api["api_v1"]
    /\ Len(apis) = 2 /\ \E i \in DOMAIN apis : apis[i].by = "user"
    /\ apis[call.api].namespaces =
          <<"default", [name |-> "TestModel", path |-> "/threads"],
            [name |-> "GameModel", path |-> "/GameModel"]>>

----------------------------------------------------------------------------
(* The claim about POST requests served at the same time *)

\* both requests are answered, the table could be read and written, and both
\* carried the same key, which the table did not hold when they arrived
SameNewKey ==
    /\ \A p \in Procs : posts[p].pc = "done" /\ posts[p].fault = "none"
    /\ \A p \in Procs : ValidRecord(posts[p].data)
    /\ SameKey(NewItem(posts[1].data), NewItem(posts[2].data))
    /\ WithKey(store0, NewItem(posts[1].data).forum, NewItem(posts[1].data).thread) = {}

\* C13: when two POST requests with the same key, which the table does not
\* hold, are served at the same time, at most one of them returns 201, and
\* then the other returns 409: never do both return 201, the second save
\* replacing the record of the first.
C13_ConcurrentPostsConflict ==
    SameNewKey =>
        /\ \E p \in Procs : posts[p].resp.status # 201
        /\ \A p \in Procs, q \in Procs :
              (p # q /\ posts[p].resp.status = 201) => posts[q].resp.status = 409

====
